---- MODULE Spec2Model ----
(***************************************************************************)
(* Model of bond_price.py: class Bond.  One Bond instance is followed from *)
(* the entry of __init__ (inputs stored on self) through validation, the   *)
(* backward-stepping loop of get_last_coupon, the derivation of the        *)
(* schedule attributes, and the three pricing queries.                     *)
(*                                                                         *)
(* Dates are calendar dates [y, m, d] of the proleptic Gregorian calendar  *)
(* (the datetimes of the tests are all at midnight).  Real numbers are     *)
(* exact: a rational where the code's arithmetic is rational, a symbolic   *)
(* term where it takes a fractional power.  A division by zero yields the  *)
(* ZeroDivisionError of Python, which propagates out of the method.        *)
(***************************************************************************)
EXTENDS Integers, Sequences, FiniteSets, TLC

VARIABLES self, pc, exc, last_coupon, steps,
          dirty_result, accrued_result, clean_result

vars == <<self, pc, exc, last_coupon, steps,
          dirty_result, accrued_result, clean_result>>

(* Cap of the ghost counter of loop iterations: the counter stops there,  *)
(* so a loop that runs on without changing its date repeats one state.    *)
MaxSteps == 56

(* ------------------------------ dates ---------------------------------- *)

Date(y, m, d) == [y |-> y, m |-> m, d |-> d]

IsLeap(y) == (y % 4 = 0) /\ ((y % 100 # 0) \/ (y % 400 = 0))

DaysInMonth(y, m) ==
    IF m = 2 THEN (IF IsLeap(y) THEN 29 ELSE 28)
    ELSE IF m \in {4, 6, 9, 11} THEN 30 ELSE 31

RECURSIVE DaysBeforeMonth(_, _)
DaysBeforeMonth(y, m) ==
    IF m = 1 THEN 0 ELSE DaysBeforeMonth(y, m - 1) + DaysInMonth(y, m - 1)

(* datetime.toordinal: day number in the proleptic Gregorian calendar. *)
ToOrdinal(dt) ==
    LET y1 == dt.y - 1
    IN  y1 * 365 + (y1 \div 4) - (y1 \div 100) + (y1 \div 400)
        + DaysBeforeMonth(dt.y, dt.m) + dt.d

(* (d1 - d2).days *)
DaysBetween(d1, d2) == ToOrdinal(d1) - ToOrdinal(d2)

DateLT(d1, d2) ==
    \/ d1.y < d2.y
    \/ d1.y = d2.y /\ d1.m < d2.m
    \/ d1.y = d2.y /\ d1.m = d2.m /\ d1.d < d2.d

DateGT(d1, d2) == DateLT(d2, d1)
DateGE(d1, d2) == ~DateLT(d1, d2)
DateLE(d1, d2) == ~DateLT(d2, d1)

MinInt(x, y) == IF x < y THEN x ELSE y

(* dt + relativedelta(months=k), k possibly negative: the month moves by   *)
(* k and the day is clamped to the last day of the month reached.          *)
AddMonths(dt, k) ==
    LET t  == dt.y * 12 + (dt.m - 1) + k
        yy == t \div 12
        mm == (t % 12) + 1
    IN  Date(yy, mm, MinInt(dt.d, DaysInMonth(yy, mm)))

SubMonths(dt, k) == AddMonths(dt, 0 - k)

(* The last day of the month before the month of dt. *)
EndOfPrevMonth(dt) ==
    IF dt.m > 1 THEN Date(dt.y, dt.m - 1, DaysInMonth(dt.y, dt.m - 1))
    ELSE Date(dt.y - 1, 12, 31)

(* dt - relativedelta(days=k), k >= 0: the date k days before dt. *)
RECURSIVE SubDays(_, _)
SubDays(dt, k) ==
    IF k < dt.d THEN Date(dt.y, dt.m, dt.d - k)
    ELSE SubDays(EndOfPrevMonth(dt), k - dt.d)

(* ------------------------------ reals ---------------------------------- *)

RECURSIVE Gcd(_, _)
Gcd(x, y) == IF y = 0 THEN x ELSE Gcd(y, x % y)

Abs(x) == IF x < 0 THEN 0 - x ELSE x

(* The rational num/den in lowest terms, den > 0. *)
Q(num, den) ==
    LET g == Gcd(Abs(num), Abs(den))
        s == IF den < 0 THEN 0 - 1 ELSE 1
    IN  [op |-> "q", num |-> s * (num \div g), den |-> s * (den \div g)]

Zero == Q(0, 1)
One == Q(1, 1)
Hundred == Q(100, 1)

(* The exception raised by a float division by zero. *)
ZeroDivisionError == [op |-> "ZeroDivisionError"]

IsQ(x) == x.op = "q"
IsErr(x) == x.op = "ZeroDivisionError"
IsZero(x) == IsQ(x) /\ x.num = 0
IsOne(x) == IsQ(x) /\ x.num = 1 /\ x.den = 1

Term(o, x, y) == [op |-> o, l |-> x, r |-> y]

RAdd(x, y) ==
    IF IsErr(x) \/ IsErr(y) THEN ZeroDivisionError
    ELSE IF IsQ(x) /\ IsQ(y) THEN Q(x.num * y.den + y.num * x.den, x.den * y.den)
    ELSE Term("add", x, y)

RSub(x, y) ==
    IF IsErr(x) \/ IsErr(y) THEN ZeroDivisionError
    ELSE IF IsQ(x) /\ IsQ(y) THEN Q(x.num * y.den - y.num * x.den, x.den * y.den)
    ELSE Term("sub", x, y)

RMul(x, y) ==
    IF IsErr(x) \/ IsErr(y) THEN ZeroDivisionError
    ELSE IF IsQ(x) /\ IsQ(y) THEN Q(x.num * y.num, x.den * y.den)
    ELSE IF IsZero(x) \/ IsZero(y) THEN Zero
    ELSE Term("mul", x, y)

(* A variant of the division that yields an infinity on a zero divisor. *)
RDivInf(x, y) ==
    IF IsErr(x) \/ IsErr(y) THEN ZeroDivisionError
    ELSE IF IsZero(y) THEN [op |-> "inf"]
    ELSE IF IsQ(x) /\ IsQ(y) THEN Q(x.num * y.den, x.den * y.num)
    ELSE Term("div", x, y)

(* x / y of Python floats: a zero divisor raises ZeroDivisionError. *)
RDiv(x, y) ==
    IF IsErr(x) \/ IsErr(y) THEN ZeroDivisionError
    ELSE IF IsZero(y) THEN ZeroDivisionError
    ELSE IF IsQ(x) /\ IsQ(y) THEN Q(x.num * y.den, x.den * y.num)
    ELSE Term("div", x, y)

(* x ** e for a rational base x >= 0 and a rational exponent e:            *)
(* 1 ** e = 1, x ** 0 = 1, 0 ** e = 0 for e > 0, and 0 ** e raises for     *)
(* e < 0; any other power is kept as a term.                               *)
RPow(x, e) ==
    IF IsErr(x) \/ IsErr(e) THEN ZeroDivisionError
    ELSE IF IsZero(e) \/ IsOne(x) THEN One
    ELSE IF IsZero(x) THEN (IF e.num > 0 THEN Zero ELSE ZeroDivisionError)
    ELSE Term("pow", x, e)

RLess(x, y) == x.num * y.den < y.num * x.den

(* max(1, x): exact on rationals, a term otherwise. *)
RMax1(x) ==
    IF IsErr(x) THEN ZeroDivisionError
    ELSE IF IsQ(x) THEN (IF RLess(One, x) THEN x ELSE One)
    ELSE Term("max", One, x)

(* round(x) of Python 3 on the rational x: nearest integer, ties to even. *)
Round(x) ==
    LET f == x.num \div x.den
        r == x.num - f * x.den
    IN  IF 2 * r < x.den THEN f
        ELSE IF 2 * r > x.den THEN f + 1
        ELSE IF f % 2 = 0 THEN f ELSE f + 1

(* ------------------------------ inputs --------------------------------- *)

InvalidDateRange == "Settlement date must be before maturity date."
InvalidFaceValue == "Face value must be positive."

Inputs(st, mt, cp, y, fv, fq, dc, pv, kt) ==
    [settle |-> st, maturity |-> mt, coupon |-> cp, ytm |-> y,
     face_value |-> fv, freq |-> fq, day_count |-> dc,
     p_value |-> pv, kt_factor |-> kt]

(* Every day of February..May 2023, and one settlement years earlier. *)
SettleWindow ==
    UNION {{Date(2023, m, d) : d \in 1..DaysInMonth(2023, m)} : m \in 2..5}

ScheduleSettles == SettleWindow \cup {Date(2020, 1, 15)}

ScheduleMaturities ==
    {Date(2023, 2, 15), Date(2023, 3, 31), Date(2023, 4, 15),
     Date(2023, 5, 31), Date(2023, 8, 31), Date(2024, 2, 29)}

ScheduleInputs ==
    {Inputs(st, mt, Q(1, 20), Q(1, 20), 100, fq, dc, 0, 0) :
        st \in ScheduleSettles, mt \in ScheduleMaturities,
        fq \in {1, 2, 4, 5, 12, 13}, dc \in {360, 365}}

PricingDates ==
    {<<Date(2022, 11, 22), Date(2025, 5, 15)>>,
     <<Date(2051, 4, 15), Date(2051, 5, 15)>>,
     <<Date(2022, 9, 18), Date(2024, 9, 20)>>,
     <<Date(2023, 3, 19), Date(2023, 3, 31)>>,
     <<Date(2023, 4, 3), Date(2023, 4, 15)>>,
     <<Date(2023, 4, 15), Date(2023, 4, 15)>>}

PricingInputs ==
    {Inputs(sm[1], sm[2], cp, y, fv, fq, dc, pv, kt) :
        sm \in PricingDates, cp \in {Zero, Q(1, 20)}, y \in {Zero, Q(1, 20)},
        fv \in {0 - 100, 0, 100}, fq \in {2, 4, 12}, dc \in {0, 360, 365},
        pv \in {0, 2}, kt \in {0, 120}}

InputAttributes ==
    {"settle", "maturity", "coupon", "ytm", "face_value", "freq",
     "day_count", "p_value", "kt_factor"}

DerivedAttributes == {"last_coupon", "next_coupon", "n", "c", "a", "b"}

(* The value of a result variable before its query was ever called. *)
NotCalled == [op |-> "none"]

(* ------------------------- schedule derivation -------------------------- *)

get_next_coupon(s) == AddMonths(s.last_coupon, 12 \div s.freq)

(* The real number that determine_n rounds:                               *)
(* ((maturity - next_coupon).days / day_count) * freq.                     *)
PeriodsLeft(s) ==
    RDiv(Q(DaysBetween(s.maturity, s.next_coupon) * s.freq, 1),
         Q(s.day_count, 1))

determine_n(s) == Round(PeriodsLeft(s))

RecordDateOffset == 10

determine_c_inclusive(s) ==
    LET ex_coupon_date == SubDays(s.next_coupon, RecordDateOffset)
    IN  IF DateGE(s.settle, ex_coupon_date) THEN 0 ELSE 1

determine_c(s) ==
    LET ex_coupon_date == SubDays(s.next_coupon, RecordDateOffset)
    IN  IF DateGT(s.settle, ex_coupon_date) THEN 0 ELSE 1

determine_a(s) == DaysBetween(s.next_coupon, s.settle)

determine_b(s) == DaysBetween(s.next_coupon, s.last_coupon)

(* ------------------------------ pricing -------------------------------- *)

(* (coupon / freq) * face_value * max(1, kt_factor / 100) *)
CouponAmount(s) ==
    RMul(RMul(RDiv(s.coupon, Q(s.freq, 1)), Q(s.face_value, 1)),
         RMax1(RDiv(Q(s.kt_factor, 1), Hundred)))

accrued_interest(s) ==
    IF s.c = 1
    THEN RMul(CouponAmount(s), RDiv(Q(s.b - s.a, 1), Q(s.b, 1)))
    ELSE RMul(CouponAmount(s), RDiv(Q(0 - s.a, 1), Q(s.b, 1)))

(* A terminal price that carries the inflation multiplier of the coupon. *)
terminal_price_indexed(s) ==
    RDiv(RMul(RMul(Q(s.face_value, 1), RAdd(One, RDiv(s.coupon, Q(s.freq, 1)))),
              RMax1(RDiv(Q(s.kt_factor, 1), Hundred))),
         RAdd(One, RMul(s.ytm, RDiv(Q(DaysBetween(s.maturity, s.settle), 1),
                                    Q(s.day_count, 1)))))

(* Only one coupon remaining (n = 0). *)
terminal_price(s) ==
    RDiv(RMul(Q(s.face_value, 1), RAdd(One, RDiv(s.coupon, Q(s.freq, 1)))),
         RAdd(One, RMul(s.ytm, RDiv(Q(DaysBetween(s.maturity, s.settle), 1),
                                    Q(s.day_count, 1)))))

PeriodYield(s) == RDiv(s.ytm, Q(s.freq, 1))

discount_factor(s) ==
    RDiv(One, RPow(RAdd(One, PeriodYield(s)), Q(s.n, 1)))

(* An annuity factor whose division yields an infinity on a zero yield. *)
annuity_factor_inf(s) ==
    RDivInf(RSub(One, discount_factor(s)), PeriodYield(s))

annuity_factor(s) ==
    RDiv(RSub(One, discount_factor(s)), PeriodYield(s))

coupon_payment(s) ==
    RMul(RDiv(s.coupon, Q(s.freq, 1)), RAdd(Q(s.c, 1), annuity_factor(s)))

adjustment_factor(s) ==
    RPow(RAdd(One, PeriodYield(s)), RDiv(Q(s.a, 1), Q(s.b, 1)))

inflation_factor(s) ==
    RMax1(RDiv(RMul(Q(s.kt_factor, 1),
                    RPow(RAdd(One, RDiv(Q(s.p_value, 1), Hundred)),
                         RDiv(Q(0 - s.a, 1), Q(s.b, 1)))),
               Hundred))

(* The general case (n # 0). *)
general_price(s) ==
    RMul(RMul(RDiv(RAdd(discount_factor(s), coupon_payment(s)),
                   adjustment_factor(s)),
              Q(s.face_value, 1)),
         inflation_factor(s))

dirty_price(s) == IF s.n = 0 THEN terminal_price(s) ELSE general_price(s)

clean_price_sum(s) == RAdd(dirty_price(s), accrued_interest(s))

clean_price(s) == RSub(dirty_price(s), accrued_interest(s))

(* ------------------------------ actions -------------------------------- *)

Init ==
    /\ self \in ScheduleInputs \cup PricingInputs
    /\ pc = "validate"
    /\ exc = "none"
    /\ last_coupon = self.maturity
    /\ steps = 0
    /\ dirty_result = NotCalled
    /\ accrued_result = NotCalled
    /\ clean_result = NotCalled

Raise(e) == pc' = "raised" /\ exc' = e

validate_inputs_strict ==
    /\ pc = "validate"
    /\ IF DateGT(self.settle, self.maturity) THEN Raise(InvalidDateRange)
       ELSE IF self.face_value <= 0 THEN Raise(InvalidFaceValue)
       ELSE pc' = "get_last_coupon" /\ exc' = exc
    /\ last_coupon' = self.maturity
    /\ UNCHANGED <<self, steps, dirty_result, accrued_result, clean_result>>

validate_inputs ==
    /\ pc = "validate"
    /\ IF DateGE(self.settle, self.maturity) THEN Raise(InvalidDateRange)
       ELSE IF self.face_value <= 0 THEN Raise(InvalidFaceValue)
       ELSE pc' = "get_last_coupon" /\ exc' = exc
    /\ last_coupon' = self.maturity
    /\ UNCHANGED <<self, steps, dirty_result, accrued_result, clean_result>>

(* One iteration of the while loop of get_last_coupon. *)
get_last_coupon ==
    /\ pc = "get_last_coupon"
    /\ DateGT(last_coupon, self.settle)
    /\ last_coupon' = SubMonths(last_coupon, 12 \div self.freq)
    /\ steps' = MinInt(steps + 1, MaxSteps)
    /\ UNCHANGED <<self, pc, exc, dirty_result, accrued_result, clean_result>>

(* Lines 37-42 of __init__ on self once get_last_coupon has returned lc:   *)
(* last_coupon and next_coupon are stored first, then n, c, a and b, each  *)
(* of which reads only the inputs and those two dates.  A                  *)
(* ZeroDivisionError raised by determine_n leaves only the two dates.      *)
derived_attributes(s, lc) ==
    LET s1 == s @@ [last_coupon |-> lc]
        s2 == s1 @@ [next_coupon |-> get_next_coupon(s1)]
    IN  IF IsErr(PeriodsLeft(s2)) THEN s2
        ELSE s2 @@ [n |-> determine_n(s2), c |-> determine_c(s2),
                    a |-> determine_a(s2), b |-> determine_b(s2)]

(* get_last_coupon returns and __init__ stores the derived attributes. *)
Bond_init ==
    /\ pc = "get_last_coupon"
    /\ ~DateGT(last_coupon, self.settle)
    /\ self' = derived_attributes(self, last_coupon)
    /\ pc' = IF "n" \in DOMAIN self' THEN "ready" ELSE "raised"
    /\ exc' = IF "n" \in DOMAIN self' THEN exc ELSE "ZeroDivisionError"
    /\ UNCHANGED <<last_coupon, steps, dirty_result, accrued_result, clean_result>>

calculate_accrued_interest ==
    /\ pc = "ready"
    /\ accrued_result' = accrued_interest(self)
    /\ UNCHANGED <<self, pc, exc, last_coupon, steps, dirty_result, clean_result>>

(* A variant that recomputes the period count on every call. *)
calculate_dirty_price_recount ==
    /\ pc = "ready"
    /\ dirty_result' = dirty_price(self)
    /\ self' = [self EXCEPT !.n = DaysBetween(self.maturity, self.settle) \div 365]
    /\ UNCHANGED <<pc, exc, last_coupon, steps, accrued_result, clean_result>>

calculate_dirty_price ==
    /\ pc = "ready"
    /\ dirty_result' = dirty_price(self)
    /\ UNCHANGED <<self, pc, exc, last_coupon, steps, accrued_result, clean_result>>

calculate_clean_price ==
    /\ pc = "ready"
    /\ clean_result' = clean_price(self)
    /\ UNCHANGED <<self, pc, exc, last_coupon, steps, dirty_result, accrued_result>>

Next ==
    \/ validate_inputs
    \/ get_last_coupon
    \/ Bond_init
    \/ calculate_accrued_interest
    \/ calculate_dirty_price
    \/ calculate_clean_price

Spec == Init /\ [][Next]_vars

(* The constructions followed under fairness: every frequency, valid and   *)
(* invalid date ranges, month-end and mid-month maturities.                *)
LoopInputs ==
    {Inputs(st, mt, Q(1, 20), Q(1, 20), 100, fq, 365, 0, 0) :
        st \in {Date(2022, 12, 10), Date(2023, 3, 1), Date(2023, 3, 29),
                Date(2023, 4, 15)},
        mt \in {Date(2023, 3, 31), Date(2023, 4, 15), Date(2024, 2, 29)},
        fq \in {1, 2, 4, 5, 12, 13}}

LoopInit ==
    /\ self \in LoopInputs
    /\ pc = "validate"
    /\ exc = "none"
    /\ last_coupon = self.maturity
    /\ steps = 0
    /\ dirty_result = NotCalled
    /\ accrued_result = NotCalled
    /\ clean_result = NotCalled

(* Once called, __init__ keeps running: each of its steps that can change  *)
(* the state is eventually taken.  Nothing obliges a caller to query.      *)
FairSpec ==
    /\ LoopInit /\ [][Next]_vars
    /\ WF_vars(validate_inputs)
    /\ WF_vars(get_last_coupon)
    /\ WF_vars(Bond_init)

TypeOK ==
    /\ pc \in {"validate", "get_last_coupon", "ready", "raised"}
    /\ steps \in 0..MaxSteps
    /\ InputAttributes \subseteq DOMAIN self

(* The counter is exact for every construction that completes. *)
StepsExact == pc = "ready" => steps < MaxSteps

(* ------------------------------ claims --------------------------------- *)

Constructed == pc = "ready"

Called(r) == r # NotCalled

(* C1 as stated: settle >= maturity always fails with InvalidDateRange and *)
(* face_value <= 0 always fails with InvalidFaceValue, also when both hold *)
(* at once, before any derived attribute is computed.                      *)
C1_AsStated ==
    pc # "validate" =>
        /\ DateGE(self.settle, self.maturity) =>
               pc = "raised" /\ exc = InvalidDateRange
        /\ self.face_value <= 0 =>
               pc = "raised" /\ exc = InvalidFaceValue
        /\ exc \in {InvalidDateRange, InvalidFaceValue} =>
               DOMAIN self = InputAttributes

(* C1 amended: settle >= maturity always fails with InvalidDateRange;      *)
(* face_value <= 0 fails with InvalidFaceValue when settle < maturity (the *)
(* date check runs first, so with both conditions the failure is           *)
(* InvalidDateRange); either failure leaves no derived attribute on self.  *)
C1_ValidationFailures ==
    pc # "validate" =>
        /\ DateGE(self.settle, self.maturity) =>
               pc = "raised" /\ exc = InvalidDateRange
        /\ (self.face_value <= 0 /\ DateLT(self.settle, self.maturity)) =>
               pc = "raised" /\ exc = InvalidFaceValue
        /\ exc \in {InvalidDateRange, InvalidFaceValue} =>
               DOMAIN self = InputAttributes

C1_Witness ==
    /\ pc = "raised"
    /\ exc = InvalidDateRange
    /\ DateGE(self.settle, self.maturity)
    /\ self.face_value <= 0

(* C2 as stated: for every constructed instance, the default ytm = 0       *)
(* included, calculate_clean_price returns a number, and that number is    *)
(* calculate_dirty_price() minus calculate_accrued_interest().             *)
C2_AsStated ==
    (Constructed /\ Called(clean_result)) =>
        /\ ~IsErr(clean_result)
        /\ (Called(dirty_result) /\ Called(accrued_result)) =>
               clean_result = RSub(dirty_result, accrued_result)

(* C2 amended: whenever calculate_dirty_price returns a number on an       *)
(* instance, calculate_clean_price returns exactly that number minus       *)
(* calculate_accrued_interest(); when calculate_dirty_price raises (as for *)
(* ytm = 0 with n > 0) calculate_clean_price raises too.                   *)
C2_CleanIsDirtyMinusAccrued ==
    (Constructed /\ Called(clean_result) /\ Called(dirty_result)
                 /\ Called(accrued_result)) =>
        IF IsErr(dirty_result)
        THEN IsErr(clean_result)
        ELSE /\ ~IsErr(clean_result)
             /\ ~IsErr(accrued_result)
             /\ clean_result = RSub(dirty_result, accrued_result)

C2_Witness ==
    /\ Constructed
    /\ Called(clean_result) /\ Called(dirty_result) /\ Called(accrued_result)
    /\ ~IsErr(dirty_result)
    /\ IsQ(accrued_result) /\ ~IsZero(accrued_result)
    /\ IsZero(self.ytm)

(* C3 as stated: every construction with freq in {1, 2, 4, 12} and         *)
(* day_count > 0 ends with last_coupon <= settle < next_coupon,            *)
(* 0 <= a <= b and n >= 0.                                                 *)
C3_AsStated ==
    (Constructed /\ self.freq \in {1, 2, 4, 12} /\ self.day_count > 0) =>
        /\ DateLE(self.last_coupon, self.settle)
        /\ DateLT(self.settle, self.next_coupon)
        /\ 0 <= self.a /\ self.a <= self.b
        /\ self.n >= 0

IsNonNegative(x) == IsQ(x) /\ x.num >= 0
IsNonPositive(x) == IsQ(x) /\ x.num <= 0

(* C4 as stated: the accrued interest of a constructed instance is >= 0    *)
(* when c = 1, <= 0 when c = 0, and exactly 0 when coupon = 0.             *)
C4_AsStated ==
    (Constructed /\ Called(accrued_result)) =>
        /\ self.c = 1 => IsNonNegative(accrued_result)
        /\ self.c = 0 => IsNonPositive(accrued_result)
        /\ IsZero(self.coupon) => IsZero(accrued_result)

(* C5: on an instance with ytm = 0, no call changes an attribute; with     *)
(* n > 0 calculate_dirty_price and calculate_clean_price end in            *)
(* ZeroDivisionError and never in a number or an infinity, while           *)
(* calculate_accrued_interest returns normally; with n = 0 none fails.     *)
C5_ZeroYield ==
    [][(Constructed /\ IsZero(self.ytm)) =>
          /\ self' = self /\ pc' = pc
          /\ ~IsErr(accrued_result')
          /\ self.n > 0 =>
                /\ dirty_result' \in {NotCalled, ZeroDivisionError}
                /\ clean_result' \in {NotCalled, ZeroDivisionError}
          /\ self.n = 0 =>
                /\ ~IsErr(dirty_result')
                /\ ~IsErr(clean_result')]_vars

C5_Witness ==
    /\ Constructed
    /\ IsZero(self.ytm) /\ self.n > 0
    /\ dirty_result = ZeroDivisionError
    /\ clean_result = ZeroDivisionError
    /\ IsQ(accrued_result)

(* C6: once constructed, every call leaves the nine input attributes and   *)
(* the six derived attributes as they are, and a query that has returned   *)
(* returns the same result when repeated.                                  *)
C6_Frame ==
    [][Constructed =>
          /\ DOMAIN self = InputAttributes \cup DerivedAttributes
          /\ self' = self
          /\ pc' = pc
          /\ Called(dirty_result) => dirty_result' = dirty_result
          /\ Called(accrued_result) => accrued_result' = accrued_result
          /\ Called(clean_result) => clean_result' = clean_result]_vars

C6_Witness ==
    /\ Constructed
    /\ Called(dirty_result) /\ Called(accrued_result) /\ Called(clean_result)
    /\ ~IsErr(dirty_result)

InFinalPeriod ==
    /\ DateLE(SubMonths(self.maturity, 12 \div self.freq), self.settle)
    /\ DateLT(self.settle, self.maturity)

(* C7 as stated (with freq = 13 the step is 12 \div 13 = 0 months, every    *)
(* iteration leaves last_coupon at maturity, and the loop never exits):    *)
(* for every settle < maturity and every positive freq the                 *)
(* loop of get_last_coupon terminates, so construction completes, with a   *)
(* date <= settle, and after exactly one step when settle lies in the      *)
(* final coupon period.                                                    *)
C7_AsStated ==
    /\ <>(pc \in {"ready", "raised"})
    /\ [](Constructed =>
             /\ DateLE(self.last_coupon, self.settle)
             /\ InFinalPeriod => steps = 1)

(* C8 as stated: with freq in {1, 2, 4, 12} and day_count > 0, n is the    *)
(* number of backward steps of get_last_coupon minus one.                  *)
C8_AsStated ==
    (Constructed /\ self.freq \in {1, 2, 4, 12} /\ self.day_count > 0) =>
        self.n = steps - 1

(* C9: c = 0 exactly when fewer than 10 days lie between settle and        *)
(* next_coupon (a < 10); otherwise c = 1, also when a is exactly 10.       *)
C9_ExCoupon ==
    Constructed =>
        /\ self.c \in {0, 1}
        /\ self.c = 0 <=> self.a < 10

C9_Witness == Constructed /\ self.a = 10 /\ self.c = 1

(* The terminal price as a function of six quantities only. *)
TerminalFormula(face_value, coupon, freq, ytm, day_count, gap) ==
    RDiv(RMul(Q(face_value, 1), RAdd(One, RDiv(coupon, Q(freq, 1)))),
         RAdd(One, RDiv(RMul(ytm, Q(gap, 1)), Q(day_count, 1))))

(* C10: with n = 0 the dirty price is a function of face_value, coupon,    *)
(* freq, ytm, day_count and the day gap maturity - settle alone, whatever  *)
(* c, kt_factor and p_value are.                                           *)
C10_TerminalPrice ==
    (Constructed /\ self.n = 0 /\ Called(dirty_result)) =>
        dirty_result =
            TerminalFormula(self.face_value, self.coupon, self.freq, self.ytm,
                            self.day_count,
                            DaysBetween(self.maturity, self.settle))

(* An ex-coupon, inflation-indexed instance in its terminal period: its    *)
(* accrued interest differs from the one it would have with c = 1 or with  *)
(* kt_factor = 0.                                                          *)
C10_Witness ==
    /\ Constructed /\ self.n = 0 /\ self.c = 0 /\ self.kt_factor > 100
    /\ IsQ(dirty_result)
    /\ IsQ(accrued_result)
    /\ accrued_result # accrued_interest([self EXCEPT !.c = 1])
    /\ accrued_result # accrued_interest([self EXCEPT !.kt_factor = 0])

====
